---- MODULE Spec2Model ----
(***************************************************************************)
(* MIR parity tooling: scripts/compare_mir_dumps.py (parser, normalizer,   *)
(* comparator, scorer, comparison run) and scripts/check_mir_parity.py     *)
(* (the gate).                                                             *)
(*                                                                         *)
(* Text is a sequence of one-character strings.  A float of the scripts is *)
(* an exact fraction <<n, d>> in lowest terms (d > 0): the model does not  *)
(* round.                                                                  *)
(***************************************************************************)
EXTENDS Integers, Sequences, FiniteSets, TLC

VARIABLES
    \* normalize_statement applied once and twice
    text, once, twice, npc,
    \* calculate_statement_similarity on two statement lists
    llvm_stmts, cranelift_stmts, similarity, reversed, spc,
    \* extract_functions scanning the lines of one dump
    lines, pos, functions, current_function, current_block, ppc,
    \* the comparison of the parsed dump with itself
    self_compared,
    \* the comparison run (compare_mir_dumps.py main) and its result document
    llvm_dir, cranelift_dir, todo, comparison_results, total_similarity,
    file_count, output, pc,
    \* the gate run (check_mir_parity.py main) on the result document
    args_threshold, report, exit_status, twin_exit_status, gpc,
    \* compare_single_function on two versions of a function, then the gate's
    \* check_function_parity on the result
    llvm_fn, cranelift_fn, fn_details, fn_parity, fpc,
    \* load_mir_dump on the two dumps of a file pair, then compare_globals
    llvm_lines, cranelift_lines, llvm_module, cranelift_module, globals_compared, lpc

normVars  == <<text, once, twice, npc>>
simVars   == <<llvm_stmts, cranelift_stmts, similarity, reversed, spc>>
parseVars == <<lines, pos, functions, current_function, current_block, ppc,
               self_compared>>
runVars   == <<llvm_dir, cranelift_dir, todo, comparison_results, total_similarity,
               file_count, output, pc>>
gateVars  == <<args_threshold, report, exit_status, twin_exit_status, gpc>>
funcVars  == <<llvm_fn, cranelift_fn, fn_details, fn_parity, fpc>>
loadVars  == <<llvm_lines, cranelift_lines, llvm_module, cranelift_module,
               globals_compared, lpc>>
vars      == <<normVars, simVars, parseVars, runVars, gateVars, funcVars, loadVars>>

-----------------------------------------------------------------------------
\* Bounds of the model

MaxTextLen == 5
MaxStmts == 2
MaxLines == 4
MaxFiles == 2
MaxGlobalLines == 2

-----------------------------------------------------------------------------
\* Characters and str methods

Whitespace == {" ", "\t"}
Digits == {"0", "1", "2", "3", "4", "5", "6", "7", "8", "9"}
UpperCase == <<"A", "B", "C", "D", "E", "F", "G", "H", "I", "J", "K", "L", "M",
               "N", "O", "P", "Q", "R", "S", "T", "U", "V", "W", "X", "Y", "Z">>
LowerCase == <<"a", "b", "c", "d", "e", "f", "g", "h", "i", "j", "k", "l", "m",
               "n", "o", "p", "q", "r", "s", "t", "u", "v", "w", "x", "y", "z">>

\* str.lower() on one character
LowerChar(c) ==
    IF \E i \in DOMAIN UpperCase : UpperCase[i] = c
    THEN LowerCase[CHOOSE i \in DOMAIN UpperCase : UpperCase[i] = c]
    ELSE c

\* str.lower()
Lower(s) == [i \in DOMAIN s |-> LowerChar(s[i])]

RECURSIVE LStrip(_)
LStrip(s) ==
    IF s # <<>> /\ Head(s) \in Whitespace THEN LStrip(Tail(s)) ELSE s

RECURSIVE RStrip(_)
RStrip(s) ==
    IF s # <<>> /\ s[Len(s)] \in Whitespace
    THEN RStrip(SubSeq(s, 1, Len(s) - 1))
    ELSE s

\* str.strip()
Strip(s) == RStrip(LStrip(s))

\* str.startswith(p)
StartsWith(s, p) == Len(s) >= Len(p) /\ SubSeq(s, 1, Len(p)) = p

\* str.endswith(p)
EndsWith(s, p) == Len(s) >= Len(p) /\ SubSeq(s, Len(s) - Len(p) + 1, Len(s)) = p

\* SubSeq(s, k, Len(s)): the text from position k on
From(s, k) == SubSeq(s, k, Len(s))

\* str.replace(old, ''): leftmost non-overlapping occurrences of old removed
RECURSIVE Remove(_, _)
Remove(s, old) ==
    IF s = <<>> THEN <<>>
    ELSE IF StartsWith(s, old) THEN Remove(From(s, Len(old) + 1), old)
    ELSE <<Head(s)>> \o Remove(Tail(s), old)

RECURSIVE SkipDigits(_)
SkipDigits(s) ==
    IF s # <<>> /\ Head(s) \in Digits THEN SkipDigits(Tail(s)) ELSE s

\* re.sub(r'_\d+', '_N', s): each underscore followed by a maximal digit run
RECURSIVE SubRegisters(_)
SubRegisters(s) ==
    IF s = <<>> THEN <<>>
    ELSE IF Head(s) = "_" /\ Len(s) >= 2 /\ s[2] \in Digits
         THEN <<"_", "N">> \o SubRegisters(SkipDigits(Tail(s)))
         ELSE <<Head(s)>> \o SubRegisters(Tail(s))

MoveToken == <<"m", "o", "v", "e", " ">>
CopyToken == <<"c", "o", "p", "y", " ">>

\* A wrong normalize_statement: register numbers are kept
normalize_statement_keeps_registers(stmt) ==
    Remove(Remove(Lower(Strip(stmt)), MoveToken), CopyToken)

normalize_statement(stmt) ==
    Remove(Remove(SubRegisters(Lower(Strip(stmt))), MoveToken), CopyToken)

-----------------------------------------------------------------------------
\* Fractions

RECURSIVE Gcd(_, _)
Gcd(a, b) == IF b = 0 THEN a ELSE Gcd(b, a % b)

\* n/d in lowest terms (n >= 0, d > 0)
Frac(n, d) == <<n \div Gcd(n, d), d \div Gcd(n, d)>>

Zero == Frac(0, 1)
One == Frac(1, 1)

FracAdd(p, q) == Frac(p[1] * q[2] + q[1] * p[2], p[2] * q[2])
\* p / k for an integer k > 0
FracDiv(p, k) == Frac(p[1], p[2] * k)
FracLess(p, q) == p[1] * q[2] < q[1] * p[2]
FracGeq(p, q) == ~FracLess(p, q)

-----------------------------------------------------------------------------
\* Similarity scorer

\* set(normalize_statement(stmt) for stmt in stmts)
NormalizedSet(stmts) == {normalize_statement(stmts[i]) : i \in DOMAIN stmts}

\* A wrong scorer: divides by the size of the first set, not of the union
calculate_statement_similarity_by_first(l_stmts, c_stmts) ==
    IF l_stmts = <<>> /\ c_stmts = <<>> THEN One
    ELSE IF l_stmts = <<>> \/ c_stmts = <<>> THEN Zero
    ELSE LET llvm_set == NormalizedSet(l_stmts)
             cranelift_set == NormalizedSet(c_stmts)
             intersection == Cardinality(llvm_set \cap cranelift_set)
         IN  Frac(intersection, Cardinality(llvm_set))

\* A wrong scorer: counts list entries, not distinct normalized statements
calculate_statement_similarity_by_length(l_stmts, c_stmts) ==
    IF l_stmts = <<>> /\ c_stmts = <<>> THEN One
    ELSE IF l_stmts = <<>> \/ c_stmts = <<>> THEN Zero
    ELSE LET llvm_set == NormalizedSet(l_stmts)
             cranelift_set == NormalizedSet(c_stmts)
             intersection == Cardinality(llvm_set \cap cranelift_set)
         IN  Frac(intersection, Len(l_stmts) + Len(c_stmts) - intersection)

calculate_statement_similarity(l_stmts, c_stmts) ==
    IF l_stmts = <<>> /\ c_stmts = <<>> THEN One
    ELSE IF l_stmts = <<>> \/ c_stmts = <<>> THEN Zero
    ELSE LET llvm_set == NormalizedSet(l_stmts)
             cranelift_set == NormalizedSet(c_stmts)
             intersection == Cardinality(llvm_set \cap cranelift_set)
             union == Cardinality(llvm_set \cup cranelift_set)
         IN  IF union > 0 THEN Frac(intersection, union) ELSE Zero

-----------------------------------------------------------------------------
\* IR text parser.  A dump is the list content.split('\n') of its lines.

\* Python's None is the empty list, a value v other than None the list <<v>>
None == <<>>
Some(v) == <<v>>

Min(S) == CHOOSE x \in S : \A y \in S : x <= y

\* str.find(p, start) with positions counted from 1; 0 when p does not occur
Find(s, p, start) ==
    LET hits == {i \in start..(Len(s) - Len(p) + 1) : SubSeq(s, i, i + Len(p) - 1) = p}
    IN  IF hits = {} THEN 0 ELSE Min(hits)

\* str.split(c) for a one-character separator
RECURSIVE SplitOn(_, _)
SplitOn(s, c) ==
    LET k == Find(s, <<c>>, 1)
    IN  IF k = 0 THEN <<s>>
        ELSE <<SubSeq(s, 1, k - 1)>> \o SplitOn(From(s, k + 1), c)

RECURSIVE WordEnd(_, _)
\* the last position of the run of non-whitespace characters that starts at k
WordEnd(s, k) ==
    IF k < Len(s) /\ s[k + 1] \notin Whitespace THEN WordEnd(s, k + 1) ELSE k

\* str.split(): the maximal runs of non-whitespace characters
RECURSIVE Words(_)
Words(s) ==
    LET t == LStrip(s)
    IN  IF t = <<>> THEN <<>>
        ELSE <<SubSeq(t, 1, WordEnd(t, 1))>> \o Words(From(t, WordEnd(t, 1) + 1))

Last(q) == q[Len(q)]

FnPrefix == <<"f", "n", " ">>
ConstFnPrefix == <<"c", "o", "n", "s", "t", " ", "f", "n", " ">>
StaticPrefix == <<"s", "t", "a", "t", "i", "c", " ">>
ConstPrefix == <<"c", "o", "n", "s", "t", " ">>
Unknown == <<"u", "n", "k", "n", "o", "w", "n">>

Terminators ==
    { <<"r", "e", "t", "u", "r", "n">>,
      <<"u", "n", "w", "i", "n", "d">>,
      <<"g", "o", "t", "o">>,
      <<"s", "w", "i", "t", "c", "h", "I", "n", "t">>,
      <<"r", "e", "s", "u", "m", "e">>,
      <<"t", "e", "r", "m", "i", "n", "a", "t", "e">>,
      <<"a", "s", "s", "e", "r", "t">> }

extract_signature(line) ==
    LET start == Find(line, <<"(">>, 1)
        end == IF start = 0 THEN 0 ELSE Find(line, <<")">>, start)
    IN  IF start # 0 /\ end # 0 THEN SubSeq(line, start, end) ELSE <<"(", ")">>

extract_attributes(line) ==
    LET open == Find(line, <<"#", "[">>, 1)
        attrs_start == open + 2
        attrs_end == Find(line, <<"]">>, attrs_start)
    IN  IF open # 0 /\ attrs_end # 0
        THEN LET parts == SplitOn(SubSeq(line, attrs_start, attrs_end - 1), ",")
             IN  [i \in DOMAIN parts |-> Strip(parts[i])]
        ELSE <<>>

\* the test of line 47
IsFunctionHeader(stripped) ==
    StartsWith(stripped, FnPrefix) \/ StartsWith(stripped, ConstFnPrefix)

\* the test of line 63
IsBlockLabel(stripped) ==
    EndsWith(stripped, <<":">>) /\ ~StartsWith(stripped, <<"}">>)

\* the test of line 78
IsTerminator(stripped) == \E term \in Terminators : StartsWith(stripped, term)

\* the test of line 83
IsStatement(stripped) ==
    /\ stripped # <<>>
    /\ ~StartsWith(stripped, <<"/", "/">>)
    /\ ~StartsWith(stripped, <<"#">>)

NewFunction(stripped) ==
    [ name |-> Last(Words(SplitOn(stripped, "(")[1])),
      signature |-> extract_signature(stripped),
      blocks |-> <<>>,
      attributes |-> extract_attributes(stripped) ]

NewBlock(stripped) ==
    [ name |-> SubSeq(stripped, 1, Len(stripped) - 1),
      statements |-> <<>>,
      terminator |-> None ]

ParseStart == [functions |-> <<>>, current_function |-> None, current_block |-> None]

\* A wrong loop body: a second function header replaces the function being
\* read without appending it to the list
ParseLine_drops_function(st, line) ==
    LET stripped == Strip(line)
    IN  IF IsFunctionHeader(stripped)
        THEN [st EXCEPT !.current_function = Some(NewFunction(stripped))]
        ELSE IF st.current_function = None THEN st
        ELSE IF IsBlockLabel(stripped)
        THEN [st EXCEPT
                !.current_function[1].blocks =
                    IF st.current_block # None THEN Append(@, st.current_block[1]) ELSE @,
                !.current_block = Some(NewBlock(stripped))]
        ELSE IF st.current_block = None THEN st
        ELSE IF IsTerminator(stripped)
        THEN [st EXCEPT !.current_block[1].terminator = Some(stripped)]
        ELSE IF IsStatement(stripped)
        THEN [st EXCEPT !.current_block[1].statements = Append(@, stripped)]
        ELSE st

\* A wrong loop body: the first terminator line of a block is kept, and a later
\* one is appended to the statements
ParseLine_keeps_first_terminator(st, line) ==
    LET stripped == Strip(line)
    IN  IF IsFunctionHeader(stripped)
        THEN [st EXCEPT
                !.functions =
                    IF st.current_function # None
                    THEN Append(@, st.current_function[1]) ELSE @,
                !.current_function = Some(NewFunction(stripped))]
        ELSE IF st.current_function = None THEN st
        ELSE IF IsBlockLabel(stripped)
        THEN [st EXCEPT
                !.current_function[1].blocks =
                    IF st.current_block # None THEN Append(@, st.current_block[1]) ELSE @,
                !.current_block = Some(NewBlock(stripped))]
        ELSE IF st.current_block = None THEN st
        ELSE IF IsTerminator(stripped)
        THEN IF st.current_block[1].terminator = None
             THEN [st EXCEPT !.current_block[1].terminator = Some(stripped)]
             ELSE [st EXCEPT !.current_block[1].statements = Append(@, stripped)]
        ELSE IF IsStatement(stripped)
        THEN [st EXCEPT !.current_block[1].statements = Append(@, stripped)]
        ELSE st

\* The body of the loop over the lines (lines 43-84)
ParseLine(st, line) ==
    LET stripped == Strip(line)
    IN  IF IsFunctionHeader(stripped)
        THEN [st EXCEPT
                !.functions =
                    IF st.current_function # None
                    THEN Append(@, st.current_function[1]) ELSE @,
                !.current_function = Some(NewFunction(stripped))]
        ELSE IF st.current_function = None THEN st
        ELSE IF IsBlockLabel(stripped)
        THEN [st EXCEPT
                !.current_function[1].blocks =
                    IF st.current_block # None THEN Append(@, st.current_block[1]) ELSE @,
                !.current_block = Some(NewBlock(stripped))]
        ELSE IF st.current_block = None THEN st
        ELSE IF IsTerminator(stripped)
        THEN [st EXCEPT !.current_block[1].terminator = Some(stripped)]
        ELSE IF IsStatement(stripped)
        THEN [st EXCEPT !.current_block[1].statements = Append(@, stripped)]
        ELSE st

\* A wrong end of input: the function still open is not appended
ParseEnd_drops_last(st) == st.functions

\* After the loop (lines 86-92): the open block, then the open function
ParseEnd(st) ==
    IF st.current_function # None
    THEN Append(st.functions,
                IF st.current_block # None
                THEN [st.current_function[1] EXCEPT !.blocks = Append(@, st.current_block[1])]
                ELSE st.current_function[1])
    ELSE st.functions

RECURSIVE ParseLines(_, _)
ParseLines(st, ls) ==
    IF ls = <<>> THEN st ELSE ParseLines(ParseLine(st, Head(ls)), Tail(ls))

extract_functions(content) == ParseEnd(ParseLines(ParseStart, content))

extract_type_from_definition(definition) ==
    LET parts == SplitOn(definition, ":")
    IN  IF Len(parts) > 1 THEN Strip(SplitOn(parts[2], "=")[1]) ELSE Unknown

\* the test of line 118
IsGlobal(stripped) ==
    StartsWith(stripped, StaticPrefix) \/ StartsWith(stripped, ConstPrefix)

RECURSIVE extract_globals(_)
extract_globals(content) ==
    IF content = <<>> THEN <<>>
    ELSE LET stripped == Strip(Head(content))
         IN  (IF IsGlobal(stripped)
              THEN << [ definition |-> stripped,
                        name |-> Last(Words(SplitOn(stripped, "=")[1])),
                        type |-> extract_type_from_definition(stripped) ] >>
              ELSE <<>>) \o extract_globals(Tail(content))

\* What the comparison reads of load_mir_dump's result for a readable file
load_mir_dump(content) ==
    [functions |-> extract_functions(content), globals |-> extract_globals(content)]

-----------------------------------------------------------------------------
\* Structural comparator.  A dict is a function on its keys; a list a set
\* iteration fills (missing_in_llvm, missing_in_cranelift) is the set of its
\* entries, which are distinct.

Max(S) == CHOOSE x \in S : \A y \in S : x >= y

Range(q) == {q[i] : i \in DOMAIN q}

\* The keys of a dict (or the entries of a set) in an iteration order
RECURSIVE SeqOf(_)
SeqOf(S) ==
    IF S = {} THEN <<>>
    ELSE LET x == CHOOSE y \in S : TRUE IN <<x>> \o SeqOf(S \ {x})

\* The lists f[k], for k along keys, one after the other
RECURSIVE Flatten(_, _)
Flatten(f, keys) ==
    IF keys = <<>> THEN <<>> ELSE f[Head(keys)] \o Flatten(f, Tail(keys))

RECURSIVE SumFrac(_)
SumFrac(q) == IF q = <<>> THEN Zero ELSE FracAdd(Head(q), SumFrac(Tail(q)))

RECURSIVE SumInt(_)
SumInt(q) == IF q = <<>> THEN 0 ELSE Head(q) + SumInt(Tail(q))

\* {x['name']: x for x in items}: a later entry of a name replaces an earlier
ByName(items) ==
    [n \in {items[i].name : i \in DOMAIN items} |->
        items[Max({i \in DOMAIN items : items[i].name = n})]]

\* A wrong comparison: terminators match only when both blocks have one
compare_basic_blocks_needs_terminator(llvm_block, cranelift_block) ==
    [ statement_count_match |->
          Len(llvm_block.statements) = Len(cranelift_block.statements),
      terminator_match |->
          /\ llvm_block.terminator # None
          /\ llvm_block.terminator = cranelift_block.terminator,
      statement_similarity |->
          calculate_statement_similarity(llvm_block.statements,
                                         cranelift_block.statements),
      llvm_statement_count |-> Len(llvm_block.statements),
      cranelift_statement_count |-> Len(cranelift_block.statements) ]

compare_basic_blocks(llvm_block, cranelift_block) ==
    [ statement_count_match |->
          Len(llvm_block.statements) = Len(cranelift_block.statements),
      terminator_match |-> llvm_block.terminator = cranelift_block.terminator,
      statement_similarity |->
          calculate_statement_similarity(llvm_block.statements,
                                         cranelift_block.statements),
      llvm_statement_count |-> Len(llvm_block.statements),
      cranelift_statement_count |-> Len(cranelift_block.statements) ]

\* A wrong entry for a block of one side only: the presence flags exchanged
BlockEntry_flags_exchanged(llvm_blocks, cranelift_blocks, block_name) ==
    IF block_name \notin DOMAIN llvm_blocks \/ block_name \notin DOMAIN cranelift_blocks
    THEN [ present_in_llvm |-> block_name \in DOMAIN cranelift_blocks,
           present_in_cranelift |-> block_name \in DOMAIN llvm_blocks,
           statement_similarity |-> Zero ]
    ELSE compare_basic_blocks(llvm_blocks[block_name], cranelift_blocks[block_name])

\* The body of the loop over all_block_names (lines 194-207)
BlockEntry(llvm_blocks, cranelift_blocks, block_name) ==
    IF block_name \notin DOMAIN llvm_blocks \/ block_name \notin DOMAIN cranelift_blocks
    THEN [ present_in_llvm |-> block_name \in DOMAIN llvm_blocks,
           present_in_cranelift |-> block_name \in DOMAIN cranelift_blocks,
           statement_similarity |-> Zero ]
    ELSE compare_basic_blocks(llvm_blocks[block_name], cranelift_blocks[block_name])

\* A wrong comparison: the attribute lists are compared as lists
compare_single_function_attribute_lists(llvm_func, cranelift_func) ==
    LET llvm_blocks == ByName(llvm_func.blocks)
        cranelift_blocks == ByName(cranelift_func.blocks)
        all_block_names == DOMAIN llvm_blocks \cup DOMAIN cranelift_blocks
    IN  [ signature_match |-> llvm_func.signature = cranelift_func.signature,
          attribute_match |-> llvm_func.attributes = cranelift_func.attributes,
          block_count_match |-> Len(llvm_func.blocks) = Len(cranelift_func.blocks),
          blocks |-> [b \in all_block_names |->
                         BlockEntry(llvm_blocks, cranelift_blocks, b)],
          llvm_block_count |-> Len(llvm_func.blocks),
          cranelift_block_count |-> Len(cranelift_func.blocks) ]

compare_single_function(llvm_func, cranelift_func) ==
    LET llvm_blocks == ByName(llvm_func.blocks)
        cranelift_blocks == ByName(cranelift_func.blocks)
        all_block_names == DOMAIN llvm_blocks \cup DOMAIN cranelift_blocks
    IN  [ signature_match |-> llvm_func.signature = cranelift_func.signature,
          attribute_match |->
              Range(llvm_func.attributes) = Range(cranelift_func.attributes),
          block_count_match |-> Len(llvm_func.blocks) = Len(cranelift_func.blocks),
          blocks |-> [b \in all_block_names |->
                         BlockEntry(llvm_blocks, cranelift_blocks, b)],
          llvm_block_count |-> Len(llvm_func.blocks),
          cranelift_block_count |-> Len(cranelift_func.blocks) ]

\* A wrong comparison: a name of the LLVM side only is recorded as missing in
\* LLVM, and a name of the Cranelift side only as missing in Cranelift
compare_functions_missing_exchanged(llvm_funcs, cranelift_funcs) ==
    LET llvm_by_name == ByName(llvm_funcs)
        cranelift_by_name == ByName(cranelift_funcs)
        all_function_names == DOMAIN llvm_by_name \cup DOMAIN cranelift_by_name
    IN  [ functions |->
              [n \in DOMAIN llvm_by_name \cap DOMAIN cranelift_by_name |->
                  compare_single_function(llvm_by_name[n], cranelift_by_name[n])],
          missing_in_llvm |-> all_function_names \ DOMAIN cranelift_by_name,
          missing_in_cranelift |->
              (all_function_names \cap DOMAIN cranelift_by_name) \ DOMAIN llvm_by_name,
          total_functions |-> Cardinality(all_function_names) ]

compare_functions(llvm_funcs, cranelift_funcs) ==
    LET llvm_by_name == ByName(llvm_funcs)
        cranelift_by_name == ByName(cranelift_funcs)
        all_function_names == DOMAIN llvm_by_name \cup DOMAIN cranelift_by_name
    IN  [ functions |->
              [n \in DOMAIN llvm_by_name \cap DOMAIN cranelift_by_name |->
                  compare_single_function(llvm_by_name[n], cranelift_by_name[n])],
          missing_in_llvm |-> all_function_names \ DOMAIN llvm_by_name,
          missing_in_cranelift |->
              (all_function_names \cap DOMAIN llvm_by_name) \ DOMAIN cranelift_by_name,
          total_functions |-> Cardinality(all_function_names) ]

\* A wrong comparison: the types of a name of both sides are not looked at
compare_globals_types_unseen(llvm_globals, cranelift_globals) ==
    LET llvm_by_name == ByName(llvm_globals)
        cranelift_by_name == ByName(cranelift_globals)
        all_names == DOMAIN llvm_by_name \cup DOMAIN cranelift_by_name
        both == DOMAIN llvm_by_name \cap DOMAIN cranelift_by_name
    IN  [ match_count |-> Cardinality(both),
          mismatch_count |-> 0,
          missing_in_llvm |-> all_names \ DOMAIN llvm_by_name,
          missing_in_cranelift |->
              (all_names \cap DOMAIN llvm_by_name) \ DOMAIN cranelift_by_name,
          details |->
              [n \in both |->
                  [ type_match |-> TRUE,
                    llvm_type |-> llvm_by_name[n].type,
                    cranelift_type |-> cranelift_by_name[n].type ]] ]

compare_globals(llvm_globals, cranelift_globals) ==
    LET llvm_by_name == ByName(llvm_globals)
        cranelift_by_name == ByName(cranelift_globals)
        all_names == DOMAIN llvm_by_name \cup DOMAIN cranelift_by_name
        both == DOMAIN llvm_by_name \cap DOMAIN cranelift_by_name
    IN  [ match_count |->
              Cardinality({n \in both : llvm_by_name[n].type = cranelift_by_name[n].type}),
          mismatch_count |->
              Cardinality({n \in both : llvm_by_name[n].type # cranelift_by_name[n].type}),
          missing_in_llvm |-> all_names \ DOMAIN llvm_by_name,
          missing_in_cranelift |->
              (all_names \cap DOMAIN llvm_by_name) \ DOMAIN cranelift_by_name,
          details |->
              [n \in both |->
                  [ type_match |-> llvm_by_name[n].type = cranelift_by_name[n].type,
                    llvm_type |-> llvm_by_name[n].type,
                    cranelift_type |-> cranelift_by_name[n].type ]] ]

\* The similarities list of lines 406-409
BlockSimilarities(func_comparison) ==
    LET funcs == func_comparison.functions
    IN  Flatten([n \in DOMAIN funcs |->
                    LET blocks == funcs[n].blocks
                        order == SeqOf(DOMAIN blocks)
                    IN  [i \in DOMAIN order |-> blocks[order[i]].statement_similarity]],
                SeqOf(DOMAIN funcs))

\* A wrong file similarity: the sum of the block similarities, not their mean
FileSimilarity_sum(func_comparison) == SumFrac(BlockSimilarities(func_comparison))

\* file_similarity of line 411
FileSimilarity(func_comparison) ==
    LET similarities == BlockSimilarities(func_comparison)
    IN  IF similarities # <<>>
        THEN FracDiv(SumFrac(similarities), Len(similarities))
        ELSE Zero

-----------------------------------------------------------------------------
\* The gate (check_mir_parity.py).  A message is a record of its kind and of
\* the names formatted into it.

\* dict.get(key, default)
Get(d, key, default) == IF key \in DOMAIN d THEN d[key] ELSE default

\* A wrong mean: the sum of the similarities
calculate_overall_parity_sum(comparison) ==
    LET files == Get(comparison, "files_compared", <<>>)
    IN  SumFrac([i \in DOMAIN files |-> Get(files[i], "similarity", Zero)])

calculate_overall_parity(comparison) ==
    LET files == Get(comparison, "files_compared", <<>>)
        total == SumFrac([i \in DOMAIN files |-> Get(files[i], "similarity", Zero)])
        count == Len(files)
    IN  IF count > 0 THEN FracDiv(total, count) ELSE Zero

\* 80% similarity threshold for blocks (line 56)
BlockNotice == Frac(4, 5)

\* A wrong block check: a block of one side only is not an issue
BlockIssues_none(func_name, block_name, block_details) == <<>>

\* Lines 61-65
BlockIssues(func_name, block_name, block_details) ==
    (IF ~Get(block_details, "present_in_llvm", TRUE)
     THEN << [kind |-> "block_missing_from_llvm", func |-> func_name, block |-> block_name] >>
     ELSE <<>>)
    \o
    (IF ~Get(block_details, "present_in_cranelift", TRUE)
     THEN << [kind |-> "block_missing_from_cranelift", func |-> func_name, block |-> block_name] >>
     ELSE <<>>)

\* Lines 55-59
BlockWarnings(func_name, block_name, block_details) ==
    IF FracLess(Get(block_details, "statement_similarity", Zero), BlockNotice)
    THEN << [kind |-> "low_similarity", func |-> func_name, block |-> block_name] >>
    ELSE <<>>

\* The issues of one pass of the loop of line 40
FunctionIssues(func_name, func_details) ==
    LET blocks == Get(func_details, "blocks", <<>>)
    IN  (IF ~Get(func_details, "signature_match", FALSE)
         THEN << [kind |-> "signature_mismatch", func |-> func_name, block |-> <<>>] >>
         ELSE <<>>)
        \o
        (IF ~Get(func_details, "block_count_match", FALSE)
         THEN << [kind |-> "block_count", func |-> func_name, block |-> <<>>] >>
         ELSE <<>>)
        \o
        Flatten([b \in DOMAIN blocks |-> BlockIssues(func_name, b, blocks[b])],
                SeqOf(DOMAIN blocks))

\* The warnings of one pass of the loop of line 40
FunctionWarnings(func_name, func_details) ==
    LET blocks == Get(func_details, "blocks", <<>>)
    IN  (IF ~Get(func_details, "attribute_match", FALSE)
         THEN << [kind |-> "attribute_differences", func |-> func_name, block |-> <<>>] >>
         ELSE <<>>)
        \o
        Flatten([b \in DOMAIN blocks |-> BlockWarnings(func_name, b, blocks[b])],
                SeqOf(DOMAIN blocks))

check_function_parity(function_comparison) ==
    LET funcs == Get(function_comparison, "functions", <<>>)
        order == SeqOf(DOMAIN funcs)
        issues == Flatten([n \in DOMAIN funcs |-> FunctionIssues(n, funcs[n])], order)
        warnings == Flatten([n \in DOMAIN funcs |-> FunctionWarnings(n, funcs[n])], order)
    IN  [ issues |-> issues, warnings |-> warnings,
          total_issues |-> Len(issues), total_warnings |-> Len(warnings) ]

check_global_parity(global_comparison) ==
    LET missing_llvm == SeqOf(Get(global_comparison, "missing_in_llvm", {}))
        missing_cranelift == SeqOf(Get(global_comparison, "missing_in_cranelift", {}))
        details == Get(global_comparison, "details", <<>>)
        mismatched == SeqOf({n \in DOMAIN details : ~Get(details[n], "type_match", FALSE)})
        issues ==
            [i \in DOMAIN missing_llvm |->
                [kind |-> "global_missing_from_llvm", name |-> missing_llvm[i]]]
            \o
            [i \in DOMAIN missing_cranelift |->
                [kind |-> "global_missing_from_cranelift", name |-> missing_cranelift[i]]]
        warnings ==
            [i \in DOMAIN mismatched |->
                [kind |-> "global_type_mismatch", name |-> mismatched[i]]]
    IN  [ issues |-> issues, warnings |-> warnings,
          total_issues |-> Len(issues), total_warnings |-> Len(warnings) ]

\* all_issues of lines 165-167
CriticalIssues(comparison) ==
    LET files == Get(comparison, "files_compared", <<>>)
    IN  Flatten([i \in DOMAIN files |-> Get(comparison, "issues_found", <<>>)],
                [i \in DOMAIN files |-> i])

\* A wrong verdict: the score must exceed the threshold
Meets_strictly(overall_parity, threshold) == FracLess(threshold, overall_parity)

\* overall_parity >= threshold (lines 115, 179 and 214)
Meets(overall_parity, threshold) == FracGeq(overall_parity, threshold)

\* What generate_parity_report puts in the report
generate_parity_report(comparison, threshold) ==
    LET files == Get(comparison, "files_compared", <<>>)
        overall_parity == calculate_overall_parity(comparison)
        function_parity ==
            [i \in DOMAIN files |->
                check_function_parity(Get(files[i], "function_comparison", <<>>))]
        global_parity ==
            [i \in DOMAIN files |->
                check_global_parity(Get(files[i], "global_comparison", <<>>))]
    IN  [ overall_parity |-> overall_parity,
          requirement_met |-> Meets(overall_parity, threshold),
          file_status |->
              [i \in DOMAIN files |->
                  Meets(Get(files[i], "similarity", Zero), threshold)],
          function_parity |-> function_parity,
          global_parity |-> global_parity,
          files_compared |-> Len(files),
          total_function_issues |->
              SumInt([i \in DOMAIN files |-> function_parity[i].total_issues]),
          total_function_warnings |->
              SumInt([i \in DOMAIN files |-> function_parity[i].total_warnings]),
          total_global_issues |->
              SumInt([i \in DOMAIN files |-> global_parity[i].total_issues]),
          total_global_warnings |->
              SumInt([i \in DOMAIN files |-> global_parity[i].total_warnings]),
          all_issues |-> CriticalIssues(comparison) ]

-----------------------------------------------------------------------------
\* Inputs

\* Characters of the statement texts normalize_statement is applied to
NormChars == {"_", "1", "N", " ", "m", "o", "v", "e"}

RECURSIVE Texts(_, _)
\* All texts over chars of length at most n
Texts(chars, n) ==
    IF n = 0 THEN {<<>>}
    ELSE LET shorter == Texts(chars, n - 1)
         IN  shorter \cup {<<c>> \o t : c \in chars, t \in {u \in shorter : Len(u) = n - 1}}

\* Statements as the parser stores them: stripped and non-empty
StmtPool ==
    { <<"_", "1", "=", "a">>,
      <<"_", "2", "2", "=", "a">>,
      <<"_", "1", "=", "b">>,
      <<"m", "o", "v", "e", " ", "x">>,
      <<"X">> }

RECURSIVE Lists(_, _)
\* All lists over elems of length at most n
Lists(elems, n) ==
    IF n = 0 THEN {<<>>}
    ELSE LET shorter == Lists(elems, n - 1)
         IN  shorter \cup {Append(l, e) : e \in elems, l \in {u \in shorter : Len(u) = n - 1}}

\* Another numbering of the registers
OtherNumber == <<"9", "1">>

\* A statement with every register (an underscore and its digits, the r'_\d+'
\* of normalize_statement) given the number number
RECURSIVE Renumbered(_, _)
Renumbered(s, number) ==
    IF s = <<>> THEN <<>>
    ELSE IF Head(s) = "_" /\ Len(s) >= 2 /\ s[2] \in Digits
         THEN <<"_">> \o number \o Renumbered(SkipDigits(Tail(s)), number)
         ELSE <<Head(s)>> \o Renumbered(Tail(s), number)

\* The positions where a word of a statement starts
WordStarts(s) ==
    {k \in DOMAIN s : s[k] \notin Whitespace /\ (k = 1 \/ s[k - 1] \in Whitespace)}

\* A statement with 'move ' or 'copy ' put before one of its words, or with
\* one such word taken away
Prefixed(s) ==
    {s}
    \cup {SubSeq(s, 1, k - 1) \o token \o From(s, k) :
             k \in WordStarts(s), token \in {MoveToken, CopyToken}}
    \cup {SubSeq(s, 1, k - 1) \o From(s, k + 5) :
             k \in {j \in WordStarts(s) :
                       SubSeq(s, j, Min({Len(s), j + 4})) \in {MoveToken, CopyToken}}}

\* The statements a backend may print for one operation: other register
\* numbers, other 'move '/'copy ' prefixes
CosmeticVariants(s) == UNION {Prefixed(t) : t \in {s, Renumbered(s, OtherNumber)}}

\* The blocks that differ from a block by cosmetic variants of its statements
RECURSIVE VariantLists(_)
VariantLists(stmts) ==
    IF stmts = <<>> THEN {<<>>}
    ELSE {<<h>> \o t : h \in CosmeticVariants(Head(stmts)), t \in VariantLists(Tail(stmts))}

\* Lines of the dumps extract_functions is run on
LinePool ==
    { <<"f", "n", " ", "f", "(", "a", ")">>,
      <<"c", "o", "n", "s", "t", " ", "f", "n", " ", "g", "(", ")">>,
      <<"b", "b", "0", ":">>,
      <<"b", "b", "1", ":">>,
      <<" ", " ", "_", "1", " ", "=", " ", "a">>,
      <<"r", "e", "t", "u", "r", "n">>,
      <<" ", "g", "o", "t", "o", " ", "b", "b", "1">>,
      <<"}">>,
      <<>> }

\* Header lines of the versions of a function f
HeaderPool ==
    { <<"f", "n", " ", "f", "(", "a", ")">>,
      <<"f", "n", " ", "f", "(", "a", ")", " ", "#", "[", "i", "n", "l", "i", "n", "e", "]">>,
      <<"f", "n", " ", "f", "(", "a", ")", " ", "#", "[", "c", "o", "l", "d", ",", " ", "i", "n", "l", "i", "n", "e", "]">>,
      <<"f", "n", " ", "f", "(", "a", ")", " ", "#", "[", "i", "n", "l", "i", "n", "e", ",", " ", "c", "o", "l", "d", ",", " ", "i", "n", "l", "i", "n", "e", "]">>,
      <<"f", "n", " ", "f", "(", "a", ",", " ", "b", ")">> }

\* The lines that follow the header of a version
BodyPool ==
    { <<  >>,
      << <<"b", "b", "0", ":">>,
         <<" ", " ", "_", "1", " ", "=", " ", "a">>,
         <<" ", " ", "r", "e", "t", "u", "r", "n">> >>,
      << <<"b", "b", "0", ":">>,
         <<" ", " ", "_", "1", " ", "=", " ", "a">>,
         <<" ", " ", "r", "e", "t", "u", "r", "n">>,
         <<"b", "b", "1", ":">>,
         <<" ", " ", "_", "2", " ", "=", " ", "b">> >>,
      << <<"b", "b", "0", ":">>,
         <<" ", " ", "_", "1", " ", "=", " ", "c">>,
         <<" ", " ", "g", "o", "t", "o">> >>,
      << <<"b", "b", "0", ":">>,
         <<" ", " ", "_", "1", " ", "=", " ", "a">>,
         <<" ", " ", "_", "2", " ", "=", " ", "b">>,
         <<" ", " ", "_", "3", " ", "=", " ", "d">>,
         <<" ", " ", "_", "4", " ", "=", " ", "e">>,
         <<" ", " ", "_", "5", " ", "=", " ", "g">> >>,
      << <<"b", "b", "0", ":">>,
         <<" ", " ", "_", "1", " ", "=", " ", "a">>,
         <<" ", " ", "_", "2", " ", "=", " ", "b">>,
         <<" ", " ", "_", "3", " ", "=", " ", "d">>,
         <<" ", " ", "_", "4", " ", "=", " ", "e">> >> }

\* The versions of f a backend may dump, as extract_functions returns them
FunctionPool == {extract_functions(<<h>> \o body)[1] : h \in HeaderPool, body \in BodyPool}

\* Lines of the dumps load_mir_dump is run on: global definitions and
\* function headers
GlobalLinePool ==
    { <<"s", "t", "a", "t", "i", "c", " ", "X", ":", " ", "i", "3", "2", " ", "=", " ", "1">>,
      <<"s", "t", "a", "t", "i", "c", " ", "X", ":", " ", "a", ":", ":", "b", " ", "=", " ", "1">>,
      <<"c", "o", "n", "s", "t", " ", "Y", " ", "=", " ", "2">>,
      <<"c", "o", "n", "s", "t", " ", "f", "n", " ", "g", "(", ")">>,
      <<"f", "n", " ", "f", "(", "a", ")">>,
      <<"c", "o", "n", "s", "t", " ", "A", ":", " ", "Y", " ", "=", " ", "2">> }

\* The dumps the two backends may have written
DumpA ==
    << <<"s", "t", "a", "t", "i", "c", " ", "X", ":", " ", "i", "3", "2", " ", "=", " ", "1">>,
       <<"f", "n", " ", "g", "(", ")">>,
       <<"f", "n", " ", "f", "(", "a", ")", " ", "#", "[", "i", "n", "l", "i", "n", "e", "]">>,
       <<"b", "b", "0", ":">>,
       <<" ", " ", "_", "1", " ", "=", " ", "m", "o", "v", "e", " ", "a">>,
       <<" ", " ", "_", "2", " ", "=", " ", "b">>,
       <<" ", " ", "r", "e", "t", "u", "r", "n">>,
       <<"b", "b", "1", ":">>,
       <<" ", " ", "_", "3", " ", "=", " ", "c">> >>

DumpB ==
    << <<"s", "t", "a", "t", "i", "c", " ", "X", ":", " ", "i", "6", "4", " ", "=", " ", "1">>,
       <<"s", "t", "a", "t", "i", "c", " ", "Y", ":", " ", "u", "8", " ", "=", " ", "2">>,
       <<"f", "n", " ", "h", "(", ")">>,
       <<"f", "n", " ", "f", "(", "a", ",", " ", "b", ")">>,
       <<"b", "b", "0", ":">>,
       <<" ", " ", "_", "9", " ", "=", " ", "a">>,
       <<" ", " ", "_", "2", " ", "=", " ", "d">>,
       <<" ", " ", "r", "e", "t", "u", "r", "n">> >>

DumpC ==
    << <<"s", "t", "a", "t", "i", "c", " ", "X", ":", " ", "i", "3", "2", " ", "=", " ", "1">>,
       <<"c", "o", "n", "s", "t", " ", "f", "n", " ", "g", "(", ")">> >>

Dumps == <<DumpA, DumpB, DumpC>>

\* load_mir_dump of each dump
Loaded == [d \in DOMAIN Dumps |-> load_mir_dump(Dumps[d])]

\* compare_functions and compare_globals of each pair of loaded dumps
FunctionComparisons ==
    [a \in DOMAIN Dumps, b \in DOMAIN Dumps |->
        compare_functions(Loaded[a].functions, Loaded[b].functions)]
GlobalComparisons ==
    [a \in DOMAIN Dumps, b \in DOMAIN Dumps |->
        compare_globals(Loaded[a].globals, Loaded[b].globals)]

\* What a directory holds under a name: a dump, or 0 for a file that cannot
\* be read
Contents == {0} \cup DOMAIN Dumps

\* File k is the name "<k>.mir"
FileNames == 1..MaxFiles

Directories == UNION {[S -> Contents] : S \in SUBSET FileNames}

\* --threshold: the default 0.95 and other values
Thresholds == {Frac(19, 20), Zero, One, Frac(7, 12)}

NoResults == [files_compared |-> <<>>, overall_similarity |-> Zero, issues_found |-> <<>>]

RunIdle ==
    /\ llvm_dir = <<>> /\ cranelift_dir = <<>> /\ todo = {}
    /\ comparison_results = NoResults /\ total_similarity = Zero /\ file_count = 0
    /\ output = None /\ pc = "idle"

GateIdle ==
    /\ args_threshold = Zero /\ report = None /\ exit_status = -1
    /\ twin_exit_status = -1 /\ gpc = "idle"

ParseIdle ==
    /\ lines = <<>> /\ pos = 0 /\ functions = <<>>
    /\ current_function = None /\ current_block = None /\ ppc = "idle"
    /\ self_compared = None

NormIdle == text = <<>> /\ once = <<>> /\ twice = <<>> /\ npc = "idle"
SimIdle ==
    /\ llvm_stmts = <<>> /\ cranelift_stmts = <<>>
    /\ similarity = Zero /\ reversed = Zero /\ spc = "idle"

FuncIdle ==
    /\ llvm_fn = <<>> /\ cranelift_fn = <<>>
    /\ fn_details = None /\ fn_parity = None /\ fpc = "idle"

LoadIdle ==
    /\ llvm_lines = <<>> /\ cranelift_lines = <<>>
    /\ llvm_module = None /\ cranelift_module = None
    /\ globals_compared = None /\ lpc = "idle"

-----------------------------------------------------------------------------
\* SpecNorm: normalize_statement applied to a text, then to its own result

NormInit ==
    /\ text \in Texts(NormChars, MaxTextLen)
    /\ once = <<>> /\ twice = <<>> /\ npc = "start"
    /\ SimIdle /\ ParseIdle /\ RunIdle /\ GateIdle /\ FuncIdle /\ LoadIdle

NormalizeOnce ==
    /\ npc = "start"
    /\ once' = normalize_statement(text)
    /\ npc' = "once"
    /\ UNCHANGED <<text, twice, simVars, parseVars, runVars, gateVars, funcVars, loadVars>>

NormalizeTwice ==
    /\ npc = "once"
    /\ twice' = normalize_statement(once)
    /\ npc' = "twice"
    /\ UNCHANGED <<text, once, simVars, parseVars, runVars, gateVars, funcVars, loadVars>>

NormNext == NormalizeOnce \/ NormalizeTwice

SpecNorm == NormInit /\ [][NormNext]_vars

-----------------------------------------------------------------------------
\* SpecSim: calculate_statement_similarity on two statement lists, then on
\* the lists reordered or with a statement repeated

SimInit ==
    /\ llvm_stmts \in Lists(StmtPool, MaxStmts)
    /\ cranelift_stmts \in Lists(StmtPool, MaxStmts)
    /\ similarity = Zero /\ reversed = Zero /\ spc = "start"
    /\ NormIdle /\ ParseIdle /\ RunIdle /\ GateIdle /\ FuncIdle /\ LoadIdle

\* compare_basic_blocks' call, and the call with the arguments exchanged
Score(l, c) ==
    /\ llvm_stmts' = l
    /\ cranelift_stmts' = c
    /\ similarity' = calculate_statement_similarity(l, c)
    /\ reversed' = calculate_statement_similarity(c, l)
    /\ spc' = "scored"
    /\ UNCHANGED <<normVars, parseVars, runVars, gateVars, funcVars, loadVars>>

Swapped(s, i, j) == [s EXCEPT ![i] = s[j], ![j] = s[i]]

ScoreFirst ==
    /\ spc = "start"
    /\ Score(llvm_stmts, cranelift_stmts)

ScoreReordered ==
    /\ spc = "scored"
    /\ \/ \E i, j \in DOMAIN llvm_stmts :
            i < j /\ Score(Swapped(llvm_stmts, i, j), cranelift_stmts)
       \/ \E i, j \in DOMAIN cranelift_stmts :
            i < j /\ Score(llvm_stmts, Swapped(cranelift_stmts, i, j))

ScoreRepeated ==
    /\ spc = "scored"
    /\ \/ \E i \in DOMAIN llvm_stmts :
            /\ Len(llvm_stmts) < MaxStmts
            /\ Score(Append(llvm_stmts, llvm_stmts[i]), cranelift_stmts)
       \/ \E i \in DOMAIN cranelift_stmts :
            /\ Len(cranelift_stmts) < MaxStmts
            /\ Score(llvm_stmts, Append(cranelift_stmts, cranelift_stmts[i]))

\* compare_basic_blocks' call for a block both backends dumped, one of them
\* with other register numbers and other 'move '/'copy ' prefixes
ScoreCosmetic ==
    /\ spc = "start"
    /\ cranelift_stmts = llvm_stmts
    /\ \E variant \in VariantLists(llvm_stmts) :
          /\ cranelift_stmts' = variant
          /\ similarity' = calculate_statement_similarity(llvm_stmts, variant)
          /\ reversed' = calculate_statement_similarity(variant, llvm_stmts)
    /\ spc' = "cosmetic"
    /\ UNCHANGED <<llvm_stmts, normVars, parseVars, runVars, gateVars, funcVars, loadVars>>

SimNext == ScoreFirst \/ ScoreReordered \/ ScoreRepeated \/ ScoreCosmetic

SpecSim == SimInit /\ [][SimNext]_vars

-----------------------------------------------------------------------------
\* SpecParse: extract_functions reading a dump line by line

ParseInit ==
    /\ lines \in Lists(LinePool, MaxLines) \ {<<>>}
    /\ pos = 1
    /\ functions = ParseStart.functions
    /\ current_function = ParseStart.current_function
    /\ current_block = ParseStart.current_block
    /\ ppc = "scan"
    /\ self_compared = None
    /\ NormIdle /\ SimIdle /\ RunIdle /\ GateIdle /\ FuncIdle /\ LoadIdle

ParseState ==
    [functions |-> functions, current_function |-> current_function,
     current_block |-> current_block]

\* One iteration of the loop of line 43
ReadLine ==
    /\ ppc = "scan"
    /\ pos <= Len(lines)
    /\ LET st == ParseLine(ParseState, lines[pos])
       IN  /\ functions' = st.functions
           /\ current_function' = st.current_function
           /\ current_block' = st.current_block
    /\ pos' = pos + 1
    /\ UNCHANGED <<lines, ppc, self_compared>>
    /\ UNCHANGED <<normVars, simVars, runVars, gateVars, funcVars, loadVars>>

\* Lines 86-92
EndOfInput ==
    /\ ppc = "scan"
    /\ pos > Len(lines)
    /\ functions' = ParseEnd(ParseState)
    /\ ppc' = "done"
    /\ UNCHANGED <<lines, pos, current_function, current_block, self_compared,
                   normVars, simVars, runVars, gateVars, funcVars, loadVars>>

\* Lines 400-411 for a file pair whose two dumps have this text: the module
\* compared with itself
CompareWithSelf ==
    /\ ppc = "done"
    /\ LET globals == extract_globals(lines)
           func_comparison == compare_functions(functions, functions)
       IN  self_compared' =
               Some([ similarity |-> FileSimilarity(func_comparison),
                      function_comparison |-> func_comparison,
                      global_comparison |-> compare_globals(globals, globals) ])
    /\ ppc' = "compared"
    /\ UNCHANGED <<lines, pos, functions, current_function, current_block>>
    /\ UNCHANGED <<normVars, simVars, runVars, gateVars, funcVars, loadVars>>

ParseNext == ReadLine \/ EndOfInput \/ CompareWithSelf

SpecParse == ParseInit /\ [][ParseNext]_vars

-----------------------------------------------------------------------------
\* SpecFunc: compare_single_function on two versions of a function, then
\* check_function_parity on a function comparison that holds the result

FuncInit ==
    /\ llvm_fn \in FunctionPool
    /\ cranelift_fn \in FunctionPool
    /\ fn_details = None /\ fn_parity = None /\ fpc = "start"
    /\ NormIdle /\ SimIdle /\ ParseIdle /\ RunIdle /\ GateIdle /\ LoadIdle

\* Line 162: the call compare_functions makes for a name of both sides
CompareFunction ==
    /\ fpc = "start"
    /\ fn_details' = Some(compare_single_function(llvm_fn, cranelift_fn))
    /\ fpc' = "compared"
    /\ UNCHANGED <<llvm_fn, cranelift_fn, fn_parity>>
    /\ UNCHANGED <<normVars, simVars, parseVars, runVars, gateVars, loadVars>>

\* check_function_parity on {'functions': {name: details}}
CheckFunction ==
    /\ fpc = "compared"
    /\ fn_parity' =
           Some(check_function_parity(
                    [functions |-> [n \in {llvm_fn.name} |-> fn_details[1]]]))
    /\ fpc' = "checked"
    /\ UNCHANGED <<llvm_fn, cranelift_fn, fn_details>>
    /\ UNCHANGED <<normVars, simVars, parseVars, runVars, gateVars, loadVars>>

FuncNext == CompareFunction \/ CheckFunction

SpecFunc == FuncInit /\ [][FuncNext]_vars

-----------------------------------------------------------------------------
\* SpecLoad: load_mir_dump on the two dumps of a file pair, then
\* compare_globals on the globals of the two modules

LoadInit ==
    /\ llvm_lines \in Lists(GlobalLinePool, MaxGlobalLines)
    /\ cranelift_lines \in Lists(GlobalLinePool, MaxGlobalLines)
    /\ llvm_module = None /\ cranelift_module = None
    /\ globals_compared = None /\ lpc = "start"
    /\ NormIdle /\ SimIdle /\ ParseIdle /\ RunIdle /\ GateIdle /\ FuncIdle

\* Lines 389-390
LoadDumps ==
    /\ lpc = "start"
    /\ llvm_module' = Some(load_mir_dump(llvm_lines))
    /\ cranelift_module' = Some(load_mir_dump(cranelift_lines))
    /\ lpc' = "loaded"
    /\ UNCHANGED <<llvm_lines, cranelift_lines, globals_compared>>
    /\ UNCHANGED <<normVars, simVars, parseVars, runVars, gateVars, funcVars>>

\* Line 403
CompareGlobals ==
    /\ lpc = "loaded"
    /\ globals_compared' =
           Some(compare_globals(llvm_module[1].globals, cranelift_module[1].globals))
    /\ lpc' = "compared"
    /\ UNCHANGED <<llvm_lines, cranelift_lines, llvm_module, cranelift_module>>
    /\ UNCHANGED <<normVars, simVars, parseVars, runVars, gateVars, funcVars>>

LoadNext == LoadDumps \/ CompareGlobals

SpecLoad == LoadInit /\ [][LoadNext]_vars

-----------------------------------------------------------------------------
\* Spec: the comparison run over two directories, then the gate on the
\* result document the run wrote

Init ==
    /\ llvm_dir \in Directories
    /\ cranelift_dir \in Directories
    /\ todo = {}
    /\ comparison_results = NoResults
    /\ total_similarity = Zero
    /\ file_count = 0
    /\ output = None
    /\ pc = "start"
    /\ args_threshold = Zero /\ report = None /\ exit_status = -1
    /\ twin_exit_status = -1 /\ gpc = "start"
    /\ NormIdle /\ SimIdle /\ ParseIdle /\ FuncIdle /\ LoadIdle

\* Whether load_mir_dump of the file a directory holds under a name returns
\* {}, as it does when reading the file raises (lines 31-33)
LoadFails(dir, name) == dir[name] = 0

\* Lines 362-383: the two globs; no .mir file on a side ends the run
FindFiles ==
    /\ pc = "start"
    /\ IF DOMAIN llvm_dir = {} \/ DOMAIN cranelift_dir = {}
       THEN pc' = "exit" /\ todo' = {}
       ELSE pc' = "loop" /\ todo' = DOMAIN llvm_dir
    /\ UNCHANGED <<llvm_dir, cranelift_dir, comparison_results, total_similarity,
                   file_count, output>>
    /\ UNCHANGED <<normVars, simVars, parseVars, gateVars, funcVars, loadVars>>

\* A wrong pass: a file that failed to load is counted as a compared file
CompareFile_counts_failed(llvm_file) ==
    IF llvm_file \notin DOMAIN cranelift_dir
    THEN /\ comparison_results' =
                [comparison_results EXCEPT !.issues_found =
                    Append(@, [kind |-> "cranelift_output_missing", file |-> llvm_file])]
         /\ UNCHANGED <<total_similarity, file_count>>
    ELSE LET llvm_mir == llvm_dir[llvm_file]
             cranelift_mir == cranelift_dir[llvm_file]
         IN  IF LoadFails(llvm_dir, llvm_file) \/ LoadFails(cranelift_dir, llvm_file)
             THEN /\ comparison_results' =
                         [comparison_results EXCEPT !.issues_found =
                             Append(@, [kind |-> "failed_to_parse", file |-> llvm_file])]
                  /\ file_count' = file_count + 1
                  /\ UNCHANGED total_similarity
             ELSE LET func_comparison == FunctionComparisons[llvm_mir, cranelift_mir]
                      global_comparison == GlobalComparisons[llvm_mir, cranelift_mir]
                      file_similarity == FileSimilarity(func_comparison)
                  IN  /\ total_similarity' = FracAdd(total_similarity, file_similarity)
                      /\ file_count' = file_count + 1
                      /\ comparison_results' =
                             [comparison_results EXCEPT !.files_compared =
                                 Append(@, [ file |-> llvm_file,
                                             similarity |-> file_similarity,
                                             function_comparison |-> func_comparison,
                                             global_comparison |-> global_comparison ])]

\* One pass of the loop of line 385, for the file llvm_file (lines 386-420)
CompareFile(llvm_file) ==
    IF llvm_file \notin DOMAIN cranelift_dir
    THEN /\ comparison_results' =
                [comparison_results EXCEPT !.issues_found =
                    Append(@, [kind |-> "cranelift_output_missing", file |-> llvm_file])]
         /\ UNCHANGED <<total_similarity, file_count>>
    ELSE LET llvm_mir == llvm_dir[llvm_file]
             cranelift_mir == cranelift_dir[llvm_file]
         IN  IF LoadFails(llvm_dir, llvm_file) \/ LoadFails(cranelift_dir, llvm_file)
             THEN /\ comparison_results' =
                         [comparison_results EXCEPT !.issues_found =
                             Append(@, [kind |-> "failed_to_parse", file |-> llvm_file])]
                  /\ UNCHANGED <<total_similarity, file_count>>
             ELSE LET func_comparison == FunctionComparisons[llvm_mir, cranelift_mir]
                      global_comparison == GlobalComparisons[llvm_mir, cranelift_mir]
                      file_similarity == FileSimilarity(func_comparison)
                  IN  /\ total_similarity' = FracAdd(total_similarity, file_similarity)
                      /\ file_count' = file_count + 1
                      /\ comparison_results' =
                             [comparison_results EXCEPT !.files_compared =
                                 Append(@, [ file |-> llvm_file,
                                             similarity |-> file_similarity,
                                             function_comparison |-> func_comparison,
                                             global_comparison |-> global_comparison ])]

\* The loop takes the files in the order glob gave them, which is any order
NextFile ==
    /\ pc = "loop"
    /\ \E llvm_file \in todo :
          /\ CompareFile(llvm_file)
          /\ todo' = todo \ {llvm_file}
    /\ UNCHANGED <<llvm_dir, cranelift_dir, output, pc>>
    /\ UNCHANGED <<normVars, simVars, parseVars, gateVars, funcVars, loadVars>>

\* A wrong overall similarity: the sum of the file similarities
OverallSimilarity_sum(total, count) == total

\* A wrong overall similarity: 1.0 when no file was compared
OverallSimilarity_empty_is_one(total, count) ==
    IF count > 0 THEN FracDiv(total, count) ELSE One

\* Line 422
OverallSimilarity(total, count) == IF count > 0 THEN FracDiv(total, count) ELSE Zero

\* Lines 422-427: the overall similarity, and the JSON result document
WriteResults ==
    /\ pc = "loop"
    /\ todo = {}
    /\ comparison_results' =
           [comparison_results EXCEPT !.overall_similarity =
               OverallSimilarity(total_similarity, file_count)]
    /\ output' = Some(comparison_results')
    /\ pc' = "written"
    /\ UNCHANGED <<llvm_dir, cranelift_dir, todo, total_similarity, file_count>>
    /\ UNCHANGED <<normVars, simVars, parseVars, gateVars, funcVars, loadVars>>

\* Lines 430-433: generate_comparison_report is given {'functions': <the
\* overall similarity, a float>} and subscripts the float (line 306):
\* TypeError, and the run ends there with no report written
WriteReport ==
    /\ pc = "written"
    /\ pc' = "raised"
    /\ UNCHANGED <<llvm_dir, cranelift_dir, todo, comparison_results, total_similarity,
                   file_count, output>>
    /\ UNCHANGED <<normVars, simVars, parseVars, gateVars, funcVars, loadVars>>

\* The exit status of check_mir_parity.py main for a loaded document
\* (lines 212-219)
GateExit(comparison, given_threshold) ==
    IF Meets(calculate_overall_parity(comparison), given_threshold) THEN 0 ELSE 1

\* Result documents with the per-file similarities of comparison and other
\* comparisons, flags and run-level issues
Twins(comparison) ==
    { [comparison EXCEPT
          !.files_compared =
              [i \in DOMAIN @ |->
                  [@[i] EXCEPT
                      !.function_comparison = FunctionComparisons[a, b],
                      !.global_comparison = GlobalComparisons[a, b]]],
          !.issues_found = issues]
      : a \in DOMAIN Dumps, b \in DOMAIN Dumps,
        issues \in {<<>>, <<[kind |-> "failed_to_parse", file |-> 1]>>} }

\* check_mir_parity.py main on the document the run wrote, if any, and on a
\* twin of the document
CheckParity ==
    /\ pc \in {"exit", "raised"}
    /\ gpc = "start"
    /\ \E given \in Thresholds :
          /\ args_threshold' = given
          /\ IF output = None
             THEN \* load_comparison_results: no file to open (lines 19-21)
                  /\ report' = None
                  /\ exit_status' = 1
                  /\ twin_exit_status' = 1
             ELSE /\ report' = Some(generate_parity_report(output[1], given))
                  /\ exit_status' = GateExit(output[1], given)
                  /\ \E twin \in Twins(output[1]) :
                        twin_exit_status' = GateExit(twin, given)
    /\ gpc' = "done"
    /\ UNCHANGED <<runVars, normVars, simVars, parseVars, funcVars, loadVars>>

Next == FindFiles \/ NextFile \/ WriteResults \/ WriteReport \/ CheckParity

Spec == Init /\ [][Next]_vars

-----------------------------------------------------------------------------
\* Properties

\* C1: normalize_statement is idempotent: normalizing a normalized statement
\* text gives the same text again.
C1_NormalizeIdempotent == npc = "twice" => twice = once

\* The header lines of a dump: stripped, they start with 'fn ' or 'const fn '
HeaderLines(content) ==
    {i \in DOMAIN content :
        \/ StartsWith(Strip(content[i]), <<"f", "n", " ">>)
        \/ StartsWith(Strip(content[i]), <<"c", "o", "n", "s", "t", " ", "f", "n", " ">>)}

\* C2: once the whole dump is read, extract_functions has as many functions
\* as the dump has function-header lines, also when the last block is
\* followed by no further line.
C2_FunctionPerHeader ==
    ppc = "done" => Len(functions) = Cardinality(HeaderLines(lines))

\* Two headers, and the dump ends in a statement of the last function's block
C2_Witness ==
    /\ ppc = "done"
    /\ Len(functions) = 2
    /\ Cardinality(HeaderLines(lines)) = 2
    /\ Last(functions).blocks # <<>>
    /\ Last(Last(functions).blocks).statements = <<Strip(Last(lines))>>

\* The files of the result document the gate loaded
GateFiles == output[1].files_compared

GateRan == gpc = "done" /\ report # None

\* Whether the mean of the similarities is at least the threshold: their sum
\* is at least the threshold times their number (the mean of none is 0.0)
MeanAtLeast(similarities, given) ==
    LET n == Len(similarities)
        total == SumFrac(similarities)
    IN  IF n = 0 THEN given[1] <= 0
        ELSE total[1] * given[2] >= given[1] * n * total[2]

BlockNamesIn(dump, func_name) ==
    LET funcs == Loaded[dump].functions
        func == funcs[Max({k \in DOMAIN funcs : funcs[k].name = func_name})]
    IN  {func.blocks[k].name : k \in DOMAIN func.blocks}

\* The blocks of matched functions of compared file i that one side only has:
\* <<function name, block name>>
OneSidedBlocks(i) ==
    LET file == GateFiles[i].file
        l == llvm_dir[file]
        c == cranelift_dir[file]
    IN  {<<n, b>> \in
            UNION {{<<n, b>> : b \in BlockNamesIn(l, n) \cup BlockNamesIn(c, n)} :
                   n \in DOMAIN GateFiles[i].function_comparison.functions} :
            (b \in BlockNamesIn(l, n)) # (b \in BlockNamesIn(c, n))}

\* C4: a block that only one version of a matched function has gets
\* statement_similarity 0.0 and the presence flags of its sides, and the gate
\* records exactly one issue that names the block: that it is missing from
\* the backend that lacks it.
C4_OneSidedBlock ==
    GateRan =>
        \A i \in DOMAIN GateFiles : \A nb \in OneSidedBlocks(i) :
            LET file == GateFiles[i].file
                in_llvm == nb[2] \in BlockNamesIn(llvm_dir[file], nb[1])
                in_cranelift == nb[2] \in BlockNamesIn(cranelift_dir[file], nb[1])
                entry == GateFiles[i].function_comparison.functions[nb[1]].blocks[nb[2]]
                issues == report[1].function_parity[i].issues
                about == {k \in DOMAIN issues :
                             issues[k].func = nb[1] /\ issues[k].block = nb[2]}
            IN  /\ entry.statement_similarity = Zero
                /\ entry.present_in_llvm = in_llvm
                /\ entry.present_in_cranelift = in_cranelift
                /\ Cardinality(about) = 1
                /\ \A k \in about :
                      issues[k].kind = IF in_llvm THEN "block_missing_from_cranelift"
                                       ELSE "block_missing_from_llvm"

\* A run with a block only the LLVM side has, and one only the Cranelift
\* side has
C4_Witness ==
    /\ GateRan
    /\ \E i, j \in DOMAIN GateFiles :
          /\ \E nb \in OneSidedBlocks(i) :
                nb[2] \in BlockNamesIn(llvm_dir[GateFiles[i].file], nb[1])
          /\ \E nb \in OneSidedBlocks(j) :
                nb[2] \in BlockNamesIn(cranelift_dir[GateFiles[j].file], nb[1])

\* C5: a function that only one of the two modules of a compared file has is
\* among the issues the gate counts for the file.
C5_OneSidedFunctionIsIssue ==
    GateRan =>
        \A i \in DOMAIN GateFiles :
            LET comparison == GateFiles[i].function_comparison
                issues == report[1].function_parity[i].issues
            IN  \A n \in comparison.missing_in_llvm \cup comparison.missing_in_cranelift :
                    \E k \in DOMAIN issues : issues[k].func = n

\* The names under which exactly one of the two directories has a file
Unpaired ==
    (DOMAIN llvm_dir \cup DOMAIN cranelift_dir) \ (DOMAIN llvm_dir \cap DOMAIN cranelift_dir)

\* C6: when the run has written its results, every file without a same-named
\* counterpart, in whichever directory it lies, is a run-level issue of
\* issues_found and has no entry in files_compared.
C6_UnpairedFileIsIssue ==
    pc \in {"written", "raised"} =>
        \A name \in Unpaired :
            /\ \E k \in DOMAIN comparison_results.issues_found :
                  comparison_results.issues_found[k].file = name
            /\ \A k \in DOMAIN comparison_results.files_compared :
                  comparison_results.files_compared[k].file # name

\* C7: the gate lists every run-level issue of the result document exactly
\* once under 'Critical Issues', whatever the number of compared files.
C7_RunIssueListedOnce ==
    GateRan =>
        \A k \in DOMAIN output[1].issues_found :
            Cardinality({m \in DOMAIN report[1].all_issues :
                            report[1].all_issues[m] = output[1].issues_found[k]}) = 1

\* The distinct normalized statements of a list
DistinctNormalized(stmts) == {normalize_statement(s) : s \in Range(stmts)}

\* |A \cap B| / |A \cup B| of the distinct normalized statements; 1.0 for two
\* empty lists and 0.0 for one empty list
Jaccard(l_stmts, c_stmts) ==
    IF Len(l_stmts) = 0 /\ Len(c_stmts) = 0 THEN <<1, 1>>
    ELSE IF Len(l_stmts) = 0 \/ Len(c_stmts) = 0 THEN <<0, 1>>
    ELSE LET A == DistinctNormalized(l_stmts)
             B == DistinctNormalized(c_stmts)
         IN  Frac(Cardinality(A \cap B), Cardinality(A \cup B))

\* C8: calculate_statement_similarity returns 1.0 for two empty lists, 0.0
\* when one list is empty, and otherwise the Jaccard index of the distinct
\* normalized statements; reordering a list or repeating a statement leaves
\* the result as it was.
C8_SimilarityIsJaccard ==
    [][spc' = "scored" =>
          /\ similarity' = Jaccard(llvm_stmts', cranelift_stmts')
          /\ spc = "scored" => similarity' = similarity]_vars

\* A list with a repeated statement scored against a list that shares one of
\* its two distinct statements
C8_Witness ==
    /\ spc = "scored"
    /\ Len(llvm_stmts) > Cardinality(Range(llvm_stmts))
    /\ Cardinality(DistinctNormalized(llvm_stmts)) = 1
    /\ Cardinality(DistinctNormalized(cranelift_stmts)) = 2
    /\ similarity = Frac(1, 2)

\* C9: calculate_statement_similarity(A, B) equals
\* calculate_statement_similarity(B, A).
C9_SimilaritySymmetric == spc = "scored" => similarity = reversed

\* Lists with different sets of normalized statements, one inside the other
C9_Witness ==
    /\ spc = "scored"
    /\ DistinctNormalized(llvm_stmts) # DistinctNormalized(cranelift_stmts)
    /\ DistinctNormalized(llvm_stmts) \subseteq DistinctNormalized(cranelift_stmts)
    /\ similarity = Frac(1, 2)
    /\ reversed = Frac(1, 2)

\* A float in [0, 1]
InUnitInterval(q) == q[2] > 0 /\ 0 <= q[1] /\ q[1] <= q[2]

\* Every similarity a result document holds
SimilaritiesOf(results) ==
    {results.overall_similarity}
    \cup {results.files_compared[i].similarity : i \in DOMAIN results.files_compared}
    \cup UNION {
            UNION {
               {results.files_compared[i].function_comparison.functions[n].blocks[b]
                    .statement_similarity :
                  b \in DOMAIN results.files_compared[i].function_comparison.functions[n].blocks} :
               n \in DOMAIN results.files_compared[i].function_comparison.functions} :
            i \in DOMAIN results.files_compared}

\* C10: every block statement_similarity, every per-file similarity and the
\* overall similarity, as the run stores them and as the gate recomputes the
\* overall one, lie in [0, 1].
C10_SimilaritiesInUnitInterval ==
    /\ \A q \in SimilaritiesOf(comparison_results) : InUnitInterval(q)
    /\ output # None => \A q \in SimilaritiesOf(output[1]) : InUnitInterval(q)
    /\ report # None => InUnitInterval(report[1].overall_parity)

\* Two files, block similarities 0, 1/3 and 1, and an overall similarity
\* strictly between 0 and 1 that the gate recomputed
C10_Witness ==
    /\ GateRan
    /\ Len(GateFiles) = 2
    /\ {Zero, Frac(1, 3), One} \subseteq SimilaritiesOf(output[1])
    /\ output[1].overall_similarity = Frac(7, 12)
    /\ report[1].overall_parity = Frac(7, 12)

\* C11: two non-empty blocks whose statements differ only in the digits of
\* their register numbers and in the presence of 'move ' and 'copy ' before
\* their words have statement similarity exactly 1.0, in both directions.
C11_CosmeticDifferencesScoreOne ==
    (spc = "cosmetic" /\ llvm_stmts # <<>>) => (similarity = One /\ reversed = One)

\* Two statements, each dumped with another register number or another
\* prefix by the other backend
C11_Witness ==
    /\ spc = "cosmetic"
    /\ Len(llvm_stmts) = 2
    /\ \A i \in DOMAIN llvm_stmts : cranelift_stmts[i] # llvm_stmts[i]
    /\ \E i \in DOMAIN llvm_stmts :
          cranelift_stmts[i] = MoveToken \o Renumbered(llvm_stmts[i], OtherNumber)
    /\ Renumbered(llvm_stmts[1], OtherNumber) # llvm_stmts[1]
    /\ similarity = One

\* Whether version b of a function is version a with one more attribute name
\* and nothing else changed
OneMoreAttribute(a, b) ==
    /\ a.name = b.name /\ a.signature = b.signature /\ a.blocks = b.blocks
    /\ Range(a.attributes) \subseteq Range(b.attributes)
    /\ Cardinality(Range(b.attributes) \ Range(a.attributes)) = 1

\* C12: attribute_match holds exactly when the two versions have the same
\* attribute names, whatever their order and repetitions; for two versions that
\* differ in one additional attribute only, attribute_match is false,
\* signature_match is true, and the gate records one warning (attribute
\* differences) and no issue for the function.
C12_AttributeDifferenceIsWarning ==
    fpc = "checked" =>
        /\ fn_details[1].attribute_match =
               (\A x \in Range(llvm_fn.attributes) \cup Range(cranelift_fn.attributes) :
                   (\E i \in DOMAIN llvm_fn.attributes : llvm_fn.attributes[i] = x)
                   <=> (\E j \in DOMAIN cranelift_fn.attributes :
                           cranelift_fn.attributes[j] = x))
        /\ (OneMoreAttribute(llvm_fn, cranelift_fn) \/ OneMoreAttribute(cranelift_fn, llvm_fn)) =>
               /\ ~fn_details[1].attribute_match
               /\ fn_details[1].signature_match
               /\ fn_parity[1].total_issues = 0
               /\ fn_parity[1].issues = <<>>
               /\ fn_parity[1].total_warnings = 1
               /\ Len(fn_parity[1].warnings) = 1
               /\ fn_parity[1].warnings[1].kind = "attribute_differences"
               /\ fn_parity[1].warnings[1].func = llvm_fn.name

\* The LLVM version has one attribute more, lists one attribute twice, and
\* the function has a block
C12_Witness ==
    /\ fpc = "checked"
    /\ OneMoreAttribute(cranelift_fn, llvm_fn)
    /\ Len(llvm_fn.attributes) > Cardinality(Range(llvm_fn.attributes))
    /\ llvm_fn.blocks # <<>>
    /\ fn_parity[1].total_warnings = 1

\* C13: when no file was compared, the overall similarity the run writes is
\* 0.0, the gate computes an overall parity of 0.0 from the document, and the
\* gate fails (exit status 1, requirement not met) for every threshold
\* greater than 0.
C13_NoFilesScoreZero ==
    /\ (pc \in {"written", "raised"} /\ file_count = 0) =>
           /\ comparison_results.files_compared = <<>>
           /\ comparison_results.overall_similarity = Zero
    /\ (GateRan /\ GateFiles = <<>>) =>
           /\ output[1].overall_similarity = Zero
           /\ report[1].overall_parity = Zero
           /\ args_threshold[1] > 0 =>
                  (exit_status = 1 /\ ~report[1].requirement_met)

\* Both directories hold files, none was compared, and the gate ran with the
\* default threshold
C13_Witness ==
    /\ GateRan
    /\ GateFiles = <<>>
    /\ DOMAIN llvm_dir # {} /\ DOMAIN cranelift_dir # {}
    /\ output[1].issues_found # <<>>
    /\ args_threshold = Frac(19, 20)
    /\ exit_status = 1

\* C14: the gate warns of low similarity for a block only when the block is
\* present on both sides and its statement_similarity is below 0.8, whatever
\* the pass/fail threshold; a block present on one side only yields an issue
\* and no low-similarity warning.
C14_LowSimilarityOnlyForMatchedBlocks ==
    GateRan =>
        \A i \in DOMAIN GateFiles :
            LET funcs == GateFiles[i].function_comparison.functions
                warnings == report[1].function_parity[i].warnings
                issues == report[1].function_parity[i].issues
            IN  \A n \in DOMAIN funcs : \A b \in DOMAIN funcs[n].blocks :
                    LET entry == funcs[n].blocks[b]
                        one_sided == "present_in_llvm" \in DOMAIN entry
                        low == {k \in DOMAIN warnings :
                                   /\ warnings[k].kind = "low_similarity"
                                   /\ warnings[k].func = n /\ warnings[k].block = b}
                    IN  /\ low # {} <=>
                              (~one_sided /\ FracLess(entry.statement_similarity, Frac(4, 5)))
                        /\ one_sided =>
                              \E k \in DOMAIN issues :
                                  issues[k].func = n /\ issues[k].block = b

\* C15: when a dump of a file pair cannot be read, the pass of the loop for
\* that file records one run-level issue that names the file, leaves the file
\* count, the similarity sum and files_compared as they were, and the run stays
\* in the loop with the remaining files still to do.
C15_UnreadableFileIsSkipped ==
    [][\A name \in todo \ todo' :
          (name \in DOMAIN cranelift_dir /\ (llvm_dir[name] = 0 \/ cranelift_dir[name] = 0)) =>
              /\ comparison_results'.issues_found =
                     Append(comparison_results.issues_found,
                            [kind |-> "failed_to_parse", file |-> name])
              /\ file_count' = file_count
              /\ total_similarity' = total_similarity
              /\ comparison_results'.files_compared = comparison_results.files_compared
              /\ pc' = "loop"
              /\ todo' = todo \ {name}]_vars

\* A run that met an unreadable dump, compared another file pair and wrote
\* its results
C15_Witness ==
    /\ pc = "written"
    /\ \E k \in DOMAIN comparison_results.issues_found :
          /\ comparison_results.issues_found[k].kind = "failed_to_parse"
          /\ cranelift_dir[comparison_results.issues_found[k].file] = 0
          /\ llvm_dir[comparison_results.issues_found[k].file] # 0
    /\ file_count = 1
    /\ Len(comparison_results.files_compared) = 1
    /\ comparison_results.overall_similarity = comparison_results.files_compared[1].similarity
    /\ comparison_results.overall_similarity # Zero

\* The numbers of a set in ascending order
RECURSIVE Ascending(_)
Ascending(S) == IF S = {} THEN <<>> ELSE <<Min(S)>> \o Ascending(S \ {Min(S)})

\* The lines of a dump after its k-th function header and before the next
OwnLines(content, k) ==
    LET headers == Ascending(HeaderLines(content))
    IN  {i \in DOMAIN content :
            headers[k] < i /\ (k = Len(headers) \/ i < headers[k + 1])}

\* The block labels among the lines of the k-th function, in order
OwnLabels(content, k) ==
    Ascending({i \in OwnLines(content, k) : IsBlockLabel(Strip(content[i]))})

\* Whether the blocks of the k-th function are those its own lines label, and
\* hold nothing but lines that follow its first label
BlocksUnderOwnHeader(content, funcs, k) ==
    LET labels == OwnLabels(content, k)
        blocks == funcs[k].blocks
    IN  /\ Len(blocks) = Len(labels)
        /\ \A j \in DOMAIN blocks :
              /\ j <= Len(labels) => blocks[j].name \o <<":">> = Strip(content[labels[j]])
              /\ \A m \in DOMAIN blocks[j].statements :
                    \E i \in OwnLines(content, k) :
                        /\ labels # <<>> /\ i > labels[1]
                        /\ Strip(content[i]) = blocks[j].statements[m]

\* C16: when the parser reads a function header while a block is open, the
\* block is appended to the function being closed and no block stays open;
\* hence, once the dump is read, every block is in the list of the function
\* whose header most recently precedes its label, and no line between a
\* header and that function's first label is stored in any block.
C16_HeaderClosesOpenBlock ==
    [][/\ (ppc = "scan" /\ pos <= Len(lines) /\ IsFunctionHeader(Strip(lines[pos]))) =>
              /\ current_block' = None
              /\ (current_function # None /\ current_block # None) =>
                     Last(functions').blocks =
                         Append(current_function[1].blocks, current_block[1])
       /\ ppc' = "done" =>
              \A k \in DOMAIN functions' : BlocksUnderOwnHeader(lines', functions', k)]_vars

\* The function names of a loaded dump
FunctionNamesIn(dump) ==
    {Loaded[dump].functions[k].name : k \in DOMAIN Loaded[dump].functions}

\* The statements of block block_name of function func_name in a loaded dump
StatementsIn(dump, func_name, block_name) ==
    LET funcs == Loaded[dump].functions
        func == funcs[Max({k \in DOMAIN funcs : funcs[k].name = func_name})]
        block == func.blocks[Max({k \in DOMAIN func.blocks :
                                    func.blocks[k].name = block_name})]
    IN  block.statements

\* The block entries of the functions both dumps have: <<function, block>>
BlockEntriesOf(l, c) ==
    UNION {{<<n, b>> : b \in BlockNamesIn(l, n) \cup BlockNamesIn(c, n)} :
           n \in FunctionNamesIn(l) \cap FunctionNamesIn(c)}

\* The term of a block entry: the Jaccard index of a block of both sides, 0.0
\* for a block of one side
TermOf(l, c, nb) ==
    IF nb[2] \in BlockNamesIn(l, nb[1]) /\ nb[2] \in BlockNamesIn(c, nb[1])
    THEN Jaccard(StatementsIn(l, nb[1], nb[2]), StatementsIn(c, nb[1], nb[2]))
    ELSE Zero

RECURSIVE SumOfTerms(_, _, _)
SumOfTerms(l, c, entries) ==
    IF entries = {} THEN Zero
    ELSE LET nb == CHOOSE x \in entries : TRUE
         IN  FracAdd(TermOf(l, c, nb), SumOfTerms(l, c, entries \ {nb}))

\* The arithmetic mean of the terms, 0.0 when there is none
MeanOfTerms(l, c) ==
    LET entries == BlockEntriesOf(l, c)
    IN  IF entries = {} THEN Zero
        ELSE FracDiv(SumOfTerms(l, c, entries), Cardinality(entries))

\* The mean of the terms of each pair of dumps
MeansOfTerms == [l \in DOMAIN Dumps, c \in DOMAIN Dumps |-> MeanOfTerms(l, c)]

\* C17: the similarity of a compared file is the arithmetic mean of the
\* statement similarities of every block entry of every function both dumps
\* have, a block of one side counting 0.0 and a function of one side adding no
\* term; it is 0.0 when there is no such block entry.
C17_FileSimilarityIsMeanOfBlocks ==
    \A i \in DOMAIN comparison_results.files_compared :
        LET entry == comparison_results.files_compared[i]
        IN  entry.similarity = MeansOfTerms[llvm_dir[entry.file], cranelift_dir[entry.file]]

\* A compared file with a one-sided function on each side, a one-sided block
\* and a block of both sides that scores 1/3: the mean is 1/6; and a compared
\* file whose only common function has no block: 0.0
C17_Witness ==
    /\ \E i \in DOMAIN comparison_results.files_compared :
          LET entry == comparison_results.files_compared[i]
              l == llvm_dir[entry.file]
              c == cranelift_dir[entry.file]
          IN  /\ FunctionNamesIn(l) \cap FunctionNamesIn(c) # {}
              /\ BlockEntriesOf(l, c) = {}
              /\ entry.similarity = Zero
    /\ \E i \in DOMAIN comparison_results.files_compared :
          LET entry == comparison_results.files_compared[i]
              l == llvm_dir[entry.file]
              c == cranelift_dir[entry.file]
          IN  /\ FunctionNamesIn(l) \ FunctionNamesIn(c) # {}
              /\ FunctionNamesIn(c) \ FunctionNamesIn(l) # {}
              /\ \E nb \in BlockEntriesOf(l, c) : nb[2] \notin BlockNamesIn(c, nb[1])
              /\ \E nb \in BlockEntriesOf(l, c) : TermOf(l, c, nb) = Frac(1, 3)
              /\ entry.similarity = Frac(1, 6)

\* The globals of the two loaded modules
LoadedGlobals == Range(llvm_module[1].globals) \cup Range(cranelift_module[1].globals)

\* The text of a definition between its first ':' and its first '=', without
\* the surrounding whitespace; 'unknown' when the definition has no ':'
DeclaredType(definition) ==
    LET colon == Find(definition, <<":">>, 1)
        equals == Find(definition, <<"=">>, 1)
    IN  IF colon = 0 THEN Unknown
        ELSE Strip(SubSeq(definition, colon + 1,
                          IF equals = 0 THEN Len(definition) ELSE equals - 1))

\* C18: the type extracted for a global definition is the text between the
\* first ':' and the first '=' of the definition with the surrounding
\* whitespace removed, and 'unknown' when the definition has no ':'; also
\* when the type itself contains ':'.
C18_TypeIsTextBetweenColonAndEquals ==
    lpc \in {"loaded", "compared"} =>
        \A g \in LoadedGlobals : g.type = DeclaredType(g.definition)

\* Whether the entries of a list have pairwise distinct names
UniqueNames(items) ==
    \A i, j \in DOMAIN items : items[i].name = items[j].name => i = j

\* C19: in the parser's output every function name occurs once, and in every
\* function every block name occurs once: of the definitions of a repeated
\* name the output holds one entry.
C19_NamesUniqueInParserOutput ==
    ppc = "done" =>
        /\ UniqueNames(functions)
        /\ \A k \in DOMAIN functions : UniqueNames(functions[k].blocks)

\* C20: compare_functions puts every function name of either side in exactly
\* one of the compared-functions map (names of both sides), missing_in_llvm
\* (names of the Cranelift side only) and missing_in_cranelift (names of the
\* LLVM side only), and total_functions is the sum of the three sizes.
C20_FunctionNamesPartitioned ==
    \A i \in DOMAIN comparison_results.files_compared :
        LET entry == comparison_results.files_compared[i]
            comparison == entry.function_comparison
            on_llvm == FunctionNamesIn(llvm_dir[entry.file])
            on_cranelift == FunctionNamesIn(cranelift_dir[entry.file])
            compared == DOMAIN comparison.functions
        IN  /\ compared = on_llvm \cap on_cranelift
            /\ comparison.missing_in_llvm = on_cranelift \ on_llvm
            /\ comparison.missing_in_cranelift = on_llvm \ on_cranelift
            /\ \A n \in on_llvm \cup on_cranelift :
                  Cardinality({part \in {1, 2, 3} :
                      \/ part = 1 /\ n \in compared
                      \/ part = 2 /\ n \in comparison.missing_in_llvm
                      \/ part = 3 /\ n \in comparison.missing_in_cranelift}) = 1
            /\ comparison.total_functions =
                  Cardinality(compared) + Cardinality(comparison.missing_in_llvm)
                  + Cardinality(comparison.missing_in_cranelift)

\* A compared file with a common function, a function of the LLVM side only
\* and one of the Cranelift side only
C20_Witness ==
    \E i \in DOMAIN comparison_results.files_compared :
        LET comparison == comparison_results.files_compared[i].function_comparison
        IN  /\ DOMAIN comparison.functions # {}
            /\ comparison.missing_in_llvm # {}
            /\ comparison.missing_in_cranelift # {}
            /\ comparison.missing_in_llvm # comparison.missing_in_cranelift
            /\ comparison.total_functions = 3

\* The names of the globals of a loaded module
GlobalNamesOf(module) == {module.globals[k].name : k \in DOMAIN module.globals}

\* The extracted type of the last global of a name in a loaded module
TypeOf(module, name) ==
    module.globals[Max({k \in DOMAIN module.globals : module.globals[k].name = name})].type

\* C21: compare_globals records every global name of one side only in the
\* missing list of the other side; every name of both sides has a details
\* entry whose type_match is the equality of the two extracted types; and
\* match_count + mismatch_count is the number of names of both sides.
C21_GlobalsCompared ==
    lpc = "compared" =>
        LET on_llvm == GlobalNamesOf(llvm_module[1])
            on_cranelift == GlobalNamesOf(cranelift_module[1])
            comparison == globals_compared[1]
        IN  /\ comparison.missing_in_llvm = on_cranelift \ on_llvm
            /\ comparison.missing_in_cranelift = on_llvm \ on_cranelift
            /\ DOMAIN comparison.details = on_llvm \cap on_cranelift
            /\ \A n \in on_llvm \cap on_cranelift :
                  /\ comparison.details[n].type_match =
                         (TypeOf(llvm_module[1], n) = TypeOf(cranelift_module[1], n))
                  /\ comparison.details[n].llvm_type = TypeOf(llvm_module[1], n)
                  /\ comparison.details[n].cranelift_type = TypeOf(cranelift_module[1], n)
            /\ comparison.match_count + comparison.mismatch_count =
                  Cardinality(on_llvm \cap on_cranelift)
            /\ comparison.match_count =
                  Cardinality({n \in on_llvm \cap on_cranelift :
                                  comparison.details[n].type_match})

\* A global of each side only, and a global of both sides with two types
C21_Witness ==
    /\ lpc = "compared"
    /\ globals_compared[1].missing_in_llvm # {}
    /\ globals_compared[1].missing_in_cranelift # {}
    /\ globals_compared[1].mismatch_count = 1
    /\ \E n \in DOMAIN globals_compared[1].details :
          ~globals_compared[1].details[n].type_match

\* Whether a stripped line starts with a terminator keyword
StartsWithKeyword(stripped) ==
    \E k \in 1..Len(stripped) : SubSeq(stripped, 1, k) \in Terminators

\* Every block the parser holds: stored in a function of the list, stored in
\* the open function, or open
HeldBlocks ==
    UNION {Range(functions[k].blocks) : k \in DOMAIN functions}
    \cup (IF current_function # None THEN Range(current_function[1].blocks) ELSE {})
    \cup (IF current_block # None /\ ppc = "scan" THEN {current_block[1]} ELSE {})

\* C22: every parsed block has no terminator or one, and no statement of a
\* block starts with a terminator keyword; a line read inside an open block
\* that starts with a terminator keyword (and is neither a function header
\* nor a block label) replaces the block's terminator and leaves its
\* statements as they were, no other line changes the terminator, and the
\* block is stored with the terminator it has when it is closed.
C22_TerminatorIsLastKeywordLine ==
    /\ [](\A b \in HeldBlocks :
            /\ Len(b.terminator) <= 1
            /\ \A m \in DOMAIN b.terminator : StartsWithKeyword(b.terminator[m])
            /\ \A m \in DOMAIN b.statements : ~StartsWithKeyword(b.statements[m]))
    /\ [][(ppc = "scan" /\ current_function # None /\ current_block # None) =>
            IF pos > Len(lines)
            THEN Last(Last(functions').blocks) = current_block[1]
            ELSE LET stripped == Strip(lines[pos])
                 IN  IF IsFunctionHeader(stripped)
                     THEN current_block' = current_block
                     ELSE IF IsBlockLabel(stripped)
                     THEN Last(current_function'[1].blocks) = current_block[1]
                     ELSE IF StartsWithKeyword(stripped)
                     THEN current_block' =
                              Some([current_block[1] EXCEPT !.terminator = Some(stripped)])
                     ELSE current_block'[1].terminator = current_block[1].terminator]_vars

\* A block read with a 'return' line and then a 'goto' line: its terminator
\* is the 'goto' line and it has no statement
C22_Witness ==
    /\ ppc = "done"
    /\ Len(lines) = 4
    /\ Strip(lines[3]) = <<"r", "e", "t", "u", "r", "n">>
    /\ Strip(lines[4]) = <<"g", "o", "t", "o", " ", "b", "b", "1">>
    /\ Len(functions) = 1
    /\ Len(functions[1].blocks) = 1
    /\ functions[1].blocks[1].terminator = Some(Strip(lines[4]))
    /\ functions[1].blocks[1].statements = <<>>

\* C23: when both directories hold at least one .mir file, the run writes the
\* result document and then the report and raises no exception: it is never
\* ended by an exception after the document is written.
C23_RunRaisesNoException ==
    (DOMAIN llvm_dir # {} /\ DOMAIN cranelift_dir # {}) => pc # "raised"

\* Whether a loaded module has a global whose definition is a function-header
\* line of the dump it was loaded from
HeaderAmongGlobals(content, module) ==
    \E i \in HeaderLines(content) : \E k \in DOMAIN module.globals :
        module.globals[k].definition = Strip(content[i])

\* C24: no entry of extract_globals comes from a line that extract_functions
\* treats as a function header, a 'const fn' header included.
C24_HeaderIsNoGlobal ==
    lpc \in {"loaded", "compared"} =>
        /\ ~HeaderAmongGlobals(llvm_lines, llvm_module[1])
        /\ ~HeaderAmongGlobals(cranelift_lines, cranelift_module[1])

\* C25: a parsed module compared with itself has no missing function, block
\* or global; all its signature, attribute, block-count, terminator and type
\* match flags are true; every block has statement similarity 1.0; and the
\* file similarity is 1.0 when some function of the module has a block, 0.0
\* when none has.
C25_SelfComparisonIsPerfect ==
    ppc = "compared" =>
        LET fc == self_compared[1].function_comparison
            gc == self_compared[1].global_comparison
        IN  /\ fc.missing_in_llvm = {} /\ fc.missing_in_cranelift = {}
            /\ DOMAIN fc.functions = {functions[k].name : k \in DOMAIN functions}
            /\ \A n \in DOMAIN fc.functions :
                  /\ fc.functions[n].signature_match
                  /\ fc.functions[n].attribute_match
                  /\ fc.functions[n].block_count_match
                  /\ \A b \in DOMAIN fc.functions[n].blocks :
                        LET entry == fc.functions[n].blocks[b]
                        IN  /\ "present_in_llvm" \notin DOMAIN entry
                            /\ "present_in_cranelift" \notin DOMAIN entry
                            /\ entry.terminator_match
                            /\ entry.statement_count_match
                            /\ entry.statement_similarity = One
            /\ gc.missing_in_llvm = {} /\ gc.missing_in_cranelift = {}
            /\ gc.mismatch_count = 0
            /\ \A n \in DOMAIN gc.details : gc.details[n].type_match
            /\ self_compared[1].similarity =
                  IF \E k \in DOMAIN functions : functions[k].blocks # <<>>
                  THEN One ELSE Zero

\* A module with a global and two functions of one name, the later with two
\* blocks, one of them without terminator: file similarity 1.0
C25_Witness ==
    /\ ppc = "compared"
    /\ Len(functions) = 2
    /\ functions[1].name = functions[2].name
    /\ Len(functions[2].blocks) = 2
    /\ \E j \in DOMAIN functions[2].blocks : functions[2].blocks[j].terminator = None
    /\ self_compared[1].similarity = One
    /\ DOMAIN self_compared[1].global_comparison.details # {}

====
